---- MODULE Spec2Model ----
(***************************************************************************)
(* Model of the command-line conversational agent: main, the two provider  *)
(* adapters (AnthropicProvider, OpenAIProvider), the read_file tool and    *)
(* the read-infer-dispatch-display loop of Agent.Run.                      *)
(*                                                                         *)
(* Text is modelled by TLA+ strings (concatenation is \o).  A raw JSON     *)
(* argument payload is a sequence of JSON tokens, each token a string.     *)
(* Terminal colour codes of the printed lines are left out: a printed line *)
(* is a record of its prefix (tag) and its text.                           *)
(***************************************************************************)
EXTENDS Integers, Sequences, FiniteSets, TLC

VARIABLES
    env,          \* process environment: the two credential variables
    pc,           \* position of main / Agent.Run
    provider,     \* the adapter main selected ("" before selection)
    tools,        \* Agent.tools
    conversation, \* local of Agent.Run: the transcript
    response,     \* local of Agent.Run: the unified response of this turn
    tcIdx,        \* index of the range loop over response.ToolCalls
    toolIdx,      \* index in tools of the tool whose Function is running (0: none)
    runErr,       \* the error Agent.Run returned ("" is nil)
    output,       \* lines printed on standard output
    \* history of the run (observations, not read by the program)
    linesRead,    \* the lines getUserMessage returned, in order
    inferLog,     \* the transcripts passed to RunInference, in order
    request,      \* the request the adapter last sent to the vendor (<<>>: none yet)
    reply,        \* the vendor reply received for the current line (<<>>: none yet)
    blocksSeen,   \* number of content segments the vendor has returned so far
    turnStart,    \* Len(conversation) when the current line was read
    toolEvents,   \* invoke / return events of tool functions for this line
    dispatched,   \* one record per tool call of this line the loop has finished
    displayed     \* the Displaying step for this line has run

vars == <<env, pc, provider, tools, conversation, response, tcIdx, toolIdx,
          runErr, output, linesRead, inferLog, request, reply, blocksSeen,
          turnStart, toolEvents, dispatched, displayed>>

-----------------------------------------------------------------------------
(* Bounds *)

\* number of lines the input source delivers before end-of-stream at the latest
MaxReads == 2
\* number of content segments (text segments and tool invocations) the
\* vendor returns over a whole run
MaxBlocks == 3
\* number of direct calls of ReadFile in one test run
MaxCalls == 2

SeqsUpTo(S, n) == UNION {[1..k -> S] : k \in 0..n}

\* the lines the operator may type (the empty line included)
Lines == {"", "read a.txt"}

-----------------------------------------------------------------------------
(* Unified types of main.go *)

Message(role, content) == [Role |-> role, Content |-> content]

ToolCall(id, name, input) == [ID |-> id, Name |-> name, Input |-> input]

EmptyResponse == [Content |-> "", ToolCalls |-> <<>>]

-----------------------------------------------------------------------------
(* tools package: ReadFile and its definition *)

Digits == {"0", "1", "2", "3", "4", "5", "6", "7", "8", "9"}

\* JSON tokens: a string literal keeps its quotes, a number is a digit string
IsString(tok) ==
    /\ Len(tok) >= 2
    /\ SubSeq(tok, 1, 1) = "\""
    /\ SubSeq(tok, Len(tok), Len(tok)) = "\""

IsNumber(tok) == Len(tok) >= 1 /\ \A i \in 1..Len(tok) : SubSeq(tok, i, i) \in Digits

IsScalar(tok) == IsString(tok) \/ IsNumber(tok) \/ tok \in {"true", "false", "null"}

Unquote(tok) == SubSeq(tok, 2, Len(tok) - 1)

\* members of a JSON object: key : value (, key : value)*
RECURSIVE ValidMembers(_)
ValidMembers(ts) ==
    /\ Len(ts) >= 3
    /\ IsString(ts[1])
    /\ ts[2] = ":"
    /\ IsScalar(ts[3])
    /\ \/ Len(ts) = 3
       \/ /\ Len(ts) >= 5
          /\ ts[4] = ","
          /\ ValidMembers(SubSeq(ts, 5, Len(ts)))

\* the syntax check json.Unmarshal runs over the whole payload first
ValidJSON(raw) ==
    \/ Len(raw) = 1 /\ IsScalar(raw[1])
    \/ /\ Len(raw) >= 2
       /\ raw[1] = "{"
       /\ raw[Len(raw)] = "}"
       /\ (Len(raw) = 2 \/ ValidMembers(SubSeq(raw, 2, Len(raw) - 1)))

TypeErrorText(tok) ==
    "json: cannot unmarshal "
        \o (IF IsNumber(tok) THEN "number" ELSE IF IsString(tok) THEN "string" ELSE "bool")
        \o " into Go struct field ReadFileInput.path of type string"

\* the object keys that match the field tagged json:"path" (the decoder
\* matches field names without regard to case)
PathKeys ==
    {a \o b \o c \o d : a \in {"p", "P"}, b \in {"a", "A"}, c \in {"t", "T"}, d \in {"h", "H"}}

\* a faulty struct tag: the field is looked up under the key "file"
RECURSIVE DecodeMembersWrongTag(_, _)
DecodeMembersWrongTag(ts, params) ==
    IF Len(ts) < 3 THEN params
    ELSE LET key == Unquote(ts[1])
             val == ts[3]
             next == IF key # "file" \/ val = "null" THEN params
                     ELSE IF IsString(val) THEN [params EXCEPT !.Path = Unquote(val)]
                     ELSE IF params.err = "" THEN [params EXCEPT !.err = TypeErrorText(val)]
                     ELSE params
         IN  DecodeMembersWrongTag(SubSeq(ts, 5, Len(ts)), next)

\* decoding of the members of a valid object into ReadFileInput, member by
\* member: the first type error is kept, decoding goes on; a null value
\* leaves the field as it is
RECURSIVE DecodeMembers(_, _)
DecodeMembers(ts, params) ==
    IF Len(ts) < 3 THEN params
    ELSE LET key == Unquote(ts[1])
             val == ts[3]
             next == IF key \notin PathKeys \/ val = "null" THEN params
                     ELSE IF IsString(val) THEN [params EXCEPT !.Path = Unquote(val)]
                     ELSE IF params.err = "" THEN [params EXCEPT !.err = TypeErrorText(val)]
                     ELSE params
         IN  DecodeMembers(SubSeq(ts, 5, Len(ts)), next)

\* json.Unmarshal(input, &params) for params of type ReadFileInput
Unmarshal(raw) ==
    LET zero == [Path |-> "", err |-> ""]
    IN  IF ~ValidJSON(raw)
        THEN [zero EXCEPT !.err = IF raw = <<>> \/ raw[1] = "{"
                                  THEN "unexpected end of JSON input"
                                  ELSE "invalid character looking for beginning of value"]
        ELSE IF Len(raw) = 1
        THEN IF raw[1] = "null" THEN zero
             ELSE [zero EXCEPT !.err = "json: cannot unmarshal "
                        \o (IF IsNumber(raw[1]) THEN "number"
                            ELSE IF IsString(raw[1]) THEN "string" ELSE "bool")
                        \o " into Go value of type tools.ReadFileInput"]
        ELSE DecodeMembers(SubSeq(raw, 2, Len(raw) - 1), zero)

\* the files of the working directory
Files ==
    [p \in {"a.txt", "empty.txt", "sub/b.txt"} |->
        CASE p = "a.txt" -> "Hello, World!"
          [] p = "empty.txt" -> ""
          [] p = "sub/b.txt" -> "nested"]

Directories == {"sub", "docs"}

\* os.ReadFile(path)
OsReadFile(path) ==
    IF path \in DOMAIN Files THEN [content |-> Files[path], err |-> ""]
    ELSE IF path \in Directories
    THEN [content |-> "", err |-> "read " \o path \o ": is a directory"]
    ELSE [content |-> "", err |-> "open " \o path \o ": no such file or directory"]

\* a faulty ReadFile that drops the error of os.ReadFile
ReadFileIgnoreReadError(input) ==
    LET params == Unmarshal(input)
        file == OsReadFile(params.Path)
    IN  IF params.err # ""
        THEN [result |-> "", err |-> "failed to parse input: " \o params.err, reads |-> <<>>]
        ELSE [result |-> file.content, err |-> "", reads |-> <<params.Path>>]

\* ReadFile(input): result and error ("" is nil), and the paths it passed to
\* os.ReadFile
ReadFile(input) ==
    LET params == Unmarshal(input)
        file == OsReadFile(params.Path)
    IN  IF params.err # ""
        THEN [result |-> "", err |-> "failed to parse input: " \o params.err, reads |-> <<>>]
        ELSE IF file.err # ""
        THEN [result |-> "", reads |-> <<params.Path>>,
              err |-> "failed to read file " \o params.Path \o ": " \o file.err]
        ELSE [result |-> file.content, err |-> "", reads |-> <<params.Path>>]

\* the fields of the struct ReadFileInput with their tags
ReadFileInput ==
    <<[name |-> "path", type |-> "string", omitempty |-> FALSE,
       description |-> "The relative path of a file in the working directory."]>>

\* GenerateSchema[T](): the reflected schema of a struct.  Properties is the
\* ordered map the reflector builds (*orderedmap.OrderedMap), Required the
\* fields without omitempty
GenerateSchema(fields) ==
    LET Mandatory(f) == ~f.omitempty
        req == SelectSeq(fields, Mandatory)
    IN  [Properties |->
            [dyntype |-> "*orderedmap.OrderedMap",
             entries |-> [i \in 1..Len(fields) |->
                            [key |-> fields[i].name,
                             value |-> [type |-> fields[i].type,
                                        description |-> fields[i].description]]]],
         Required |-> [i \in 1..Len(req) |-> req[i].name]]

ReadFileDefinition ==
    [Name |-> "read_file",
     Description |-> "Read the contents of a given relative file path.",
     InputSchema |-> GenerateSchema(ReadFileInput),
     Function |-> "ReadFile"]

\* tool.Function(input) for a Function field naming the function
CallFunction(fn, input) == CASE fn = "ReadFile" -> ReadFile(input)

\* argument payloads
PathPayload(p) == <<"{", "\"path\"", ":", "\"" \o p \o "\"", "}">>

-----------------------------------------------------------------------------
(* Vendor replies *)

\* the text segments a vendor reply may carry
TextSegments == {"Hi", "Done"}

\* the tool invocations a vendor reply may carry: a read of an existing file,
\* a read of a missing file, and a tool that is not configured
ToolUses ==
    { ToolCall("call_1", "read_file", PathPayload("a.txt")),
      ToolCall("call_2", "read_file", PathPayload("nonexistent.txt")),
      ToolCall("call_3", "write_file", PathPayload("a.txt")) }

\* anthropic.ContentBlockUnion, the fields RunInference reads
TextBlock(text) == [Type |-> "text", Text |-> text, ID |-> "", Name |-> "", Input |-> <<>>]

ToolUseBlock(tc) ==
    [Type |-> "tool_use", Text |-> "", ID |-> tc.ID, Name |-> tc.Name, Input |-> tc.Input]

AnthropicBlocks == {TextBlock(t) : t \in TextSegments} \cup {ToolUseBlock(tc) : tc \in ToolUses}

\* anthropic.Message: its Content
AnthropicReplies == [Content : SeqsUpTo(AnthropicBlocks, MaxBlocks)]

\* openai.ChatCompletionMessageToolCall
OpenAIToolCall(tc) == [ID |-> tc.ID, Function |-> [Name |-> tc.Name, Arguments |-> tc.Input]]

OpenAIMessages ==
    [Content : {""} \cup TextSegments,
     ToolCalls : SeqsUpTo({OpenAIToolCall(tc) : tc \in ToolUses}, MaxBlocks)]

\* openai.ChatCompletion: its Choices (one choice is requested)
OpenAIReplies == [Choices : {<<>>} \cup {<<[Message |-> m]>> : m \in OpenAIMessages}]

-----------------------------------------------------------------------------
(* Provider adapters: the conversion of the vendor reply to Response *)

\* a faulty scan that keeps only the last tool invocation of the reply
RECURSIVE AnthropicScanKeepLast(_, _)
AnthropicScanKeepLast(blocks, resp) ==
    IF blocks = <<>> THEN resp
    ELSE LET content == Head(blocks)
             next == CASE content.Type = "text" ->
                            [resp EXCEPT !.Content = content.Text]
                       [] content.Type = "tool_use" ->
                            [resp EXCEPT !.ToolCalls =
                                <<ToolCall(content.ID, content.Name, content.Input)>>]
                       [] OTHER -> resp
         IN  AnthropicScanKeepLast(Tail(blocks), next)

\* the range loop over message.Content of AnthropicProvider.RunInference
RECURSIVE AnthropicScan(_, _)
AnthropicScan(blocks, resp) ==
    IF blocks = <<>> THEN resp
    ELSE LET content == Head(blocks)
             next == CASE content.Type = "text" ->
                            [resp EXCEPT !.Content = content.Text]
                       [] content.Type = "tool_use" ->
                            [resp EXCEPT !.ToolCalls =
                                Append(@, ToolCall(content.ID, content.Name, content.Input))]
                       [] OTHER -> resp
         IN  AnthropicScan(Tail(blocks), next)

AnthropicDecode(message) == AnthropicScan(message.Content, EmptyResponse)

\* the range loop over choice.Message.ToolCalls of OpenAIProvider.RunInference
RECURSIVE OpenAIScan(_, _)
OpenAIScan(toolCalls, resp) ==
    IF toolCalls = <<>> THEN resp
    ELSE LET toolCall == Head(toolCalls)
         IN  OpenAIScan(Tail(toolCalls),
                        [resp EXCEPT !.ToolCalls =
                            Append(@, ToolCall(toolCall.ID, toolCall.Function.Name,
                                               toolCall.Function.Arguments))])

OpenAIDecode(completion) ==
    IF Len(completion.Choices) > 0
    THEN LET choice == completion.Choices[1]
             withText == IF choice.Message.Content # ""
                         THEN [EmptyResponse EXCEPT !.Content = choice.Message.Content]
                         ELSE EmptyResponse
         IN  OpenAIScan(choice.Message.ToolCalls, withText)
    ELSE EmptyResponse

\* a faulty encoding that sends every turn with the user role
AnthropicEncodeAllUser(conv) ==
    [i \in 1..Len(conv) |->
        [Role |-> "user", Content |-> <<[Type |-> "text", Text |-> conv[i].Content]>>]]

\* the message array AnthropicProvider.RunInference builds from the conversation
AnthropicEncode(conv) ==
    [i \in 1..Len(conv) |->
        IF conv[i].Role = "user"
        THEN [Role |-> "user", Content |-> <<[Type |-> "text", Text |-> conv[i].Content]>>]
        ELSE [Role |-> "assistant",
              Content |-> <<[Type |-> "text", Text |-> conv[i].Content]>>]]

\* the tool declarations AnthropicProvider.RunInference builds
AnthropicTools(ts) ==
    [k \in 1..Len(ts) |->
        [Name |-> ts[k].Name, Description |-> ts[k].Description,
         InputSchema |-> ts[k].InputSchema]]

\* the message array OpenAIProvider.RunInference builds from the conversation
OpenAIEncode(conv) ==
    [i \in 1..Len(conv) |->
        IF conv[i].Role = "user"
        THEN [Role |-> "user", Content |-> conv[i].Content]
        ELSE [Role |-> "assistant", Content |-> conv[i].Content]]

\* the parameter map OpenAIProvider.RunInference builds from a tool's schema:
\* filled only when Properties is a map[string]interface{}
OpenAIParams(schema) ==
    IF schema.Properties.dyntype = "nil" THEN <<>>
    ELSE IF schema.Properties.dyntype = "map[string]interface{}"
    THEN ("type" :> "object")
            @@ ("properties" :> schema.Properties.entries)
            @@ (IF Len(schema.Required) > 0 THEN "required" :> schema.Required ELSE <<>>)
    ELSE <<>>

\* the tool declarations OpenAIProvider.RunInference builds
OpenAITools(ts) ==
    [k \in 1..Len(ts) |->
        [Name |-> ts[k].Name, Description |-> ts[k].Description,
         Parameters |-> OpenAIParams(ts[k].InputSchema)]]

\* the request an adapter sends to its vendor
BuildRequest(p, conv, ts) ==
    IF p = "openai"
    THEN [Messages |-> OpenAIEncode(conv), Tools |-> OpenAITools(ts)]
    ELSE [Messages |-> AnthropicEncode(conv), Tools |-> AnthropicTools(ts)]

Providers == {"openai", "anthropic"}

Replies(p) == IF p = "openai" THEN OpenAIReplies ELSE AnthropicReplies

Decode(p, r) == IF p = "openai" THEN OpenAIDecode(r) ELSE AnthropicDecode(r)

\* the number of content segments of a vendor reply
BlockCount(p, r) ==
    IF p = "openai"
    THEN IF r.Choices = <<>> THEN 0
         ELSE (IF r.Choices[1].Message.Content # "" THEN 1 ELSE 0)
                + Len(r.Choices[1].Message.ToolCalls)
    ELSE Len(r.Content)

\* the errors a vendor call may return
InferenceErrors == {"401 Unauthorized"}

-----------------------------------------------------------------------------
(* main and Agent.Run *)

\* a printed line: its prefix and its text
Line(tag, text) == [tag |-> tag, text |-> text]

\* the tool sets an Agent is constructed with (main passes ReadFileDefinition)
ToolSets == {<<ReadFileDefinition>>}

\* a faulty append that writes over the last turn instead of growing the slice
AppendTurnOverwrite(conv, role, content) ==
    IF conv = <<>> THEN <<Message(role, content)>>
    ELSE [conv EXCEPT ![Len(conv)] = Message(role, content)]

\* conversation = append(conversation, Message{Role, Content})
AppendTurn(conv, role, content) == Append(conv, Message(role, content))

\* a faulty lookup that lets a later tool of the same name win
FindToolLast(ts, name) ==
    IF \E k \in 1..Len(ts) : ts[k].Name = name
    THEN CHOOSE k \in 1..Len(ts) :
            /\ ts[k].Name = name
            /\ \A j \in (k + 1)..Len(ts) : ts[j].Name # name
    ELSE 0

\* the inner range loop over a.tools: the index of the first tool of that
\* name, 0 when there is none
FindTool(ts, name) ==
    IF \E k \in 1..Len(ts) : ts[k].Name = name
    THEN CHOOSE k \in 1..Len(ts) :
            /\ ts[k].Name = name
            /\ \A j \in 1..(k - 1) : ts[j].Name # name
    ELSE 0

\* a faulty loop that walks the tool calls from the last to the first
CurrentCallReversed(resp, i) == resp.ToolCalls[Len(resp.ToolCalls) + 1 - i]

\* the tool call the range loop over response.ToolCalls is at
CurrentCall(resp, i) == resp.ToolCalls[i]

\* a faulty format that leaves the tool's name out of the turn
ToolResultContentUnnamed(name, result) == "Tool executed with result: " \o result

\* fmt.Sprintf("Tool %s executed with result: %s", toolCall.Name, result)
ToolResultContent(name, result) == "Tool " \o name \o " executed with result: " \o result

\* the lines printed for the outcome of a tool function
ToolAnnotation(r) ==
    IF r.err # "" THEN <<Line("Tool Error", r.err)>> ELSE <<Line("Tool Result", r.result)>>

\* a faulty loop that goes back to the prompt when there is no tool call
AfterInferenceSkipDisplay(resp) ==
    IF Len(resp.ToolCalls) > 0 THEN "DispatchingTools" ELSE "AwaitingInput"

\* where Run goes once RunInference has returned a response
AfterInference(resp) == IF Len(resp.ToolCalls) > 0 THEN "DispatchingTools" ELSE "Displaying"

\* the credential the selected provider sends with the vendor call
Credential == IF provider = "openai" THEN env["OPENAI_API_KEY"] ELSE env["ANTHROPIC_API_KEY"]

Init ==
    /\ env \in [{"OPENAI_API_KEY", "ANTHROPIC_API_KEY"} -> {"", "key"}]
    /\ pc = "main"
    /\ provider = ""
    /\ tools = <<>>
    /\ conversation = <<>>
    /\ response = EmptyResponse
    /\ tcIdx = 0
    /\ toolIdx = 0
    /\ runErr = ""
    /\ output = <<>>
    /\ linesRead = <<>>
    /\ inferLog = <<>>
    /\ request = <<>>
    /\ reply = <<>>
    /\ blocksSeen = 0
    /\ turnStart = 0
    /\ toolEvents = <<>>
    /\ dispatched = <<>>
    /\ displayed = FALSE

\* main up to the first prompt of agent.Run: provider selection, NewAgent,
\* the empty conversation and the greeting
MainStart ==
    /\ pc = "main"
    /\ provider' = IF env["OPENAI_API_KEY"] # "" THEN "openai" ELSE "anthropic"
    /\ \E ts \in ToolSets : tools' = ts
    /\ conversation' = <<>>
    /\ output' = output \o <<Line("Provider", provider'), Line("Chat", "")>>
    /\ pc' = "AwaitingInput"
    /\ UNCHANGED <<env, response, tcIdx, toolIdx, runErr, linesRead, inferLog, request,
                   reply, blocksSeen, turnStart, toolEvents, dispatched, displayed>>

\* a faulty loop that goes round again on an empty line, without a turn and
\* without an inference call
ReadLineSkipEmpty(line) ==
    /\ pc = "AwaitingInput"
    /\ Len(linesRead) < MaxReads
    /\ output' = Append(output, Line("You", ""))
    /\ conversation' = IF line = "" THEN conversation
                       ELSE AppendTurn(conversation, "user", line)
    /\ inferLog' = IF line = "" THEN inferLog ELSE Append(inferLog, conversation')
    /\ request' = IF line = "" THEN request
                  ELSE <<BuildRequest(provider, conversation', tools)>>
    /\ pc' = IF line = "" THEN "AwaitingInput" ELSE "Inferring"
    /\ response' = EmptyResponse
    /\ tcIdx' = 0
    /\ linesRead' = Append(linesRead, line)
    /\ turnStart' = Len(conversation)
    /\ toolEvents' = <<>>
    /\ dispatched' = <<>>
    /\ displayed' = FALSE
    /\ reply' = <<>>
    /\ UNCHANGED <<env, provider, tools, toolIdx, runErr, blocksSeen>>

\* getUserMessage returns a line: the user turn is appended and RunInference
\* is called with the conversation
ReadLine(line) ==
    /\ pc = "AwaitingInput"
    /\ Len(linesRead) < MaxReads
    /\ output' = Append(output, Line("You", ""))
    /\ conversation' = AppendTurn(conversation, "user", line)
    /\ inferLog' = Append(inferLog, conversation')
    /\ request' = <<BuildRequest(provider, conversation', tools)>>
    /\ pc' = "Inferring"
    /\ response' = EmptyResponse
    /\ tcIdx' = 0
    /\ linesRead' = Append(linesRead, line)
    /\ turnStart' = Len(conversation)
    /\ toolEvents' = <<>>
    /\ dispatched' = <<>>
    /\ displayed' = FALSE
    /\ reply' = <<>>
    /\ UNCHANGED <<env, provider, tools, toolIdx, runErr, blocksSeen>>

\* getUserMessage reports end-of-stream: the loop breaks and Run returns nil
ReadEOF ==
    /\ pc = "AwaitingInput"
    /\ output' = Append(output, Line("You", ""))
    /\ runErr' = ""
    /\ pc' = "Returned"
    /\ UNCHANGED <<env, provider, tools, conversation, response, tcIdx, toolIdx,
                   linesRead, inferLog, request, reply, blocksSeen, turnStart, toolEvents, dispatched,
                   displayed>>

\* a faulty loop that prints the inference error and carries on with the next
\* line instead of returning
InferenceFailsContinue(e) ==
    /\ pc = "Inferring"
    /\ output' = Append(output, Line("Error", e))
    /\ pc' = "AwaitingInput"
    /\ UNCHANGED <<env, provider, tools, conversation, response, tcIdx, toolIdx,
                   runErr, linesRead, inferLog, request, reply, blocksSeen, turnStart, toolEvents,
                   dispatched, displayed>>

\* RunInference returns an error: Run returns it
InferenceFails(e) ==
    /\ pc = "Inferring"
    /\ runErr' = e
    /\ pc' = "Returned"
    /\ UNCHANGED <<env, provider, tools, conversation, response, tcIdx, toolIdx,
                   output, linesRead, inferLog, request, reply, blocksSeen, turnStart, toolEvents,
                   dispatched, displayed>>

\* RunInference returns the response converted from the vendor reply r
InferenceReturns(r) ==
    /\ pc = "Inferring"
    /\ Credential # ""
    /\ blocksSeen + BlockCount(provider, r) <= MaxBlocks
    /\ blocksSeen' = blocksSeen + BlockCount(provider, r)
    /\ reply' = <<r>>
    /\ response' = Decode(provider, r)
    /\ pc' = AfterInference(response')
    /\ tcIdx' = IF pc' = "DispatchingTools" THEN 1 ELSE 0
    /\ UNCHANGED <<env, provider, tools, conversation, toolIdx, runErr, output,
                   linesRead, inferLog, request, turnStart, toolEvents, dispatched, displayed>>

\* the range loop over response.ToolCalls moves to the next call, or ends
NextCall ==
    IF tcIdx < Len(response.ToolCalls)
    THEN tcIdx' = tcIdx + 1 /\ pc' = pc
    ELSE tcIdx' = tcIdx /\ pc' = "Displaying"

\* one tool call: the tool is looked up; when found its Function is invoked,
\* when not found the loop goes on to the next call
DispatchCall ==
    /\ pc = "DispatchingTools"
    /\ toolIdx = 0
    /\ LET toolCall == CurrentCall(response, tcIdx)
           k == FindTool(tools, toolCall.Name)
       IN  IF k = 0
           THEN /\ NextCall
                /\ dispatched' = Append(dispatched,
                        [call |-> toolCall, found |-> FALSE, err |-> "",
                         result |-> "", reads |-> <<>>, printed |-> <<>>,
                         appended |-> <<>>])
                /\ UNCHANGED <<toolIdx, toolEvents>>
           ELSE /\ toolIdx' = k
                /\ toolEvents' = Append(toolEvents,
                        [ev |-> "invoke", call |-> toolCall, tool |-> k])
                /\ UNCHANGED <<pc, tcIdx, dispatched>>
    /\ UNCHANGED <<env, provider, tools, conversation, response, runErr, output,
                   linesRead, inferLog, request, reply, blocksSeen, turnStart, displayed>>

\* the tool's Function returns: its outcome is printed and a turn is appended
ToolReturns ==
    /\ pc = "DispatchingTools"
    /\ toolIdx # 0
    /\ LET toolCall == CurrentCall(response, tcIdx)
           r == CallFunction(tools[toolIdx].Function, toolCall.Input)
           lines == ToolAnnotation(r)
           turn == Message("assistant", ToolResultContent(toolCall.Name, r.result))
       IN  /\ output' = output \o lines
           /\ conversation' = AppendTurn(conversation, turn.Role, turn.Content)
           /\ toolEvents' = Append(toolEvents,
                   [ev |-> "return", call |-> toolCall, tool |-> toolIdx])
           /\ dispatched' = Append(dispatched,
                   [call |-> toolCall, found |-> TRUE, err |-> r.err,
                    result |-> r.result, reads |-> r.reads, printed |-> lines,
                    appended |-> <<turn>>])
    /\ toolIdx' = 0
    /\ NextCall
    /\ UNCHANGED <<env, provider, tools, response, runErr, linesRead, inferLog, request,
                   reply, blocksSeen, turnStart, displayed>>

\* a faulty Displaying step that appends the response text even when empty
DisplayAlways ==
    /\ pc = "Displaying"
    /\ output' = Append(output, Line("Assistant", response.Content))
    /\ conversation' = AppendTurn(conversation, "assistant", response.Content)
    /\ displayed' = TRUE
    /\ pc' = "AwaitingInput"
    /\ UNCHANGED <<env, provider, tools, response, tcIdx, toolIdx, runErr,
                   linesRead, inferLog, request, reply, blocksSeen, turnStart, toolEvents, dispatched>>

\* the response text, when there is one, is printed and appended
Display ==
    /\ pc = "Displaying"
    /\ IF response.Content # ""
       THEN /\ output' = Append(output, Line("Assistant", response.Content))
            /\ conversation' = AppendTurn(conversation, "assistant", response.Content)
       ELSE UNCHANGED <<output, conversation>>
    /\ displayed' = TRUE
    /\ pc' = "AwaitingInput"
    /\ UNCHANGED <<env, provider, tools, response, tcIdx, toolIdx, runErr,
                   linesRead, inferLog, request, reply, blocksSeen, turnStart, toolEvents, dispatched>>

\* main after agent.Run has returned: an error is printed, the process ends
MainExit ==
    /\ pc = "Returned"
    /\ output' = IF runErr # "" THEN Append(output, Line("Error", runErr)) ELSE output
    /\ pc' = "Exited"
    /\ UNCHANGED <<env, provider, tools, conversation, response, tcIdx, toolIdx,
                   runErr, linesRead, inferLog, request, reply, blocksSeen, turnStart, toolEvents,
                   dispatched, displayed>>

Next ==
    \/ MainStart
    \/ \E line \in Lines : ReadLine(line)
    \/ ReadEOF
    \/ \E e \in InferenceErrors : InferenceFails(e)
    \/ \E r \in Replies(provider) : InferenceReturns(r)
    \/ DispatchCall
    \/ ToolReturns
    \/ Display
    \/ MainExit

Spec == Init /\ [][Next]_vars

-----------------------------------------------------------------------------
(* An Agent constructed by NewAgent with a tool set of the caller's choice *)

\* a second descriptor under the name of ReadFileDefinition
ReadFileDuplicate ==
    [ReadFileDefinition EXCEPT !.Description = "Another descriptor named read_file."]

\* the tool set NewAgent is called with here: two descriptors of the same
\* name (the tool set of main is the one Spec runs with)
AgentToolSets == {<<ReadFileDefinition, ReadFileDuplicate>>}

\* the state NewAgent leaves: provider, getUserMessage and tools are stored
\* as given, nothing is checked
InitAgent ==
    /\ env = [k \in {"OPENAI_API_KEY", "ANTHROPIC_API_KEY"} |-> "key"]
    /\ pc = "run"
    /\ provider \in Providers
    /\ tools \in AgentToolSets
    /\ conversation = <<>>
    /\ response = EmptyResponse
    /\ tcIdx = 0
    /\ toolIdx = 0
    /\ runErr = ""
    /\ output = <<>>
    /\ linesRead = <<>>
    /\ inferLog = <<>>
    /\ request = <<>>
    /\ reply = <<>>
    /\ blocksSeen = 0
    /\ turnStart = 0
    /\ toolEvents = <<>>
    /\ dispatched = <<>>
    /\ displayed = FALSE

\* agent.Run begins: the empty conversation and the greeting
RunStart ==
    /\ pc = "run"
    /\ conversation' = <<>>
    /\ output' = Append(output, Line("Chat", ""))
    /\ pc' = "AwaitingInput"
    /\ UNCHANGED <<env, provider, tools, response, tcIdx, toolIdx, runErr,
                   linesRead, inferLog, request, reply, blocksSeen, turnStart,
                   toolEvents, dispatched, displayed>>

NextAgent ==
    \/ RunStart
    \/ \E line \in Lines : ReadLine(line)
    \/ ReadEOF
    \/ \E e \in InferenceErrors : InferenceFails(e)
    \/ \E r \in Replies(provider) : InferenceReturns(r)
    \/ DispatchCall
    \/ ToolReturns
    \/ Display

SpecAgent == InitAgent /\ [][NextAgent]_vars

-----------------------------------------------------------------------------
(* ReadFile called directly, as the tests of the tools package call it *)

\* the paths the test inputs name: the files, the directories, a missing
\* file and the empty path
TestPaths == DOMAIN Files \cup Directories \cup {"nonexistent.txt", ""}

\* well-formed payloads naming the path p: the marshalled ReadFileInput, the
\* same with another member before it, with the key in upper case, and with
\* the path given twice (the last one counts)
WellFormedFor(p) ==
    { PathPayload(p),
      <<"{", "\"mode\"", ":", "\"r\"", ",", "\"path\"", ":", "\"" \o p \o "\"", "}">>,
      <<"{", "\"PATH\"", ":", "\"" \o p \o "\"", "}">>,
      <<"{", "\"path\"", ":", "\"other\"", ",", "\"path\"", ":", "\"" \o p \o "\"", "}">> }

\* payloads whose path is a number or a boolean
WrongTypePayloads ==
    { <<"{", "\"path\"", ":", "123", "}">>,
      <<"{", "\"path\"", ":", "true", "}">>,
      <<"{", "\"path\"", ":", "123", ",", "\"path\"", ":", "\"a.txt\"", "}">> }

\* truncated JSON
TruncatedPayloads ==
    { <<"{", "\"path\"", ":", "\"a.txt\"">>,
      <<"{", "\"path\"", ":">>,
      <<"{">>,
      <<>> }

\* payloads whose path is the JSON null
NullPathPayloads == { <<"{", "\"path\"", ":", "null", "}">> }

TestInputs ==
    UNION {WellFormedFor(p) : p \in TestPaths}
        \cup WrongTypePayloads \cup TruncatedPayloads \cup NullPathPayloads

InitReadFile ==
    /\ env = [k \in {"OPENAI_API_KEY", "ANTHROPIC_API_KEY"} |-> ""]
    /\ pc = "test"
    /\ provider = ""
    /\ tools = <<ReadFileDefinition>>
    /\ conversation = <<>>
    /\ response = EmptyResponse
    /\ tcIdx = 0
    /\ toolIdx = 0
    /\ runErr = ""
    /\ output = <<>>
    /\ linesRead = <<>>
    /\ inferLog = <<>>
    /\ request = <<>>
    /\ reply = <<>>
    /\ blocksSeen = 0
    /\ turnStart = 0
    /\ toolEvents = <<>>
    /\ dispatched = <<>>
    /\ displayed = FALSE

\* one test case: ReadFileDefinition.Function is called on the payload and
\* its result and error are recorded
TestReadFile(input) ==
    /\ pc = "test"
    /\ Len(dispatched) < MaxCalls
    /\ LET r == CallFunction(tools[1].Function, input)
       IN  dispatched' = Append(dispatched,
               [call |-> ToolCall("", tools[1].Name, input), found |-> TRUE,
                err |-> r.err, result |-> r.result, reads |-> r.reads,
                printed |-> <<>>, appended |-> <<>>])
    /\ UNCHANGED <<env, pc, provider, tools, conversation, response, tcIdx, toolIdx,
                   runErr, output, linesRead, inferLog, request, reply, blocksSeen,
                   turnStart, toolEvents, displayed>>

NextReadFile == \E input \in TestInputs : TestReadFile(input)

SpecReadFile == InitReadFile /\ [][NextReadFile]_vars

-----------------------------------------------------------------------------
(* Properties *)

IsPrefix(s, t) == Len(s) <= Len(t) /\ SubSeq(t, 1, Len(s)) = s

\* sub occurs in the string s
Contains(s, sub) ==
    \E i \in 0..(Len(s) - Len(sub)) : SubSeq(s, i + 1, i + Len(sub)) = sub

Last(s) == s[Len(s)]

\* C1: the transcript is append-only: in every step the transcript before
\* the step is a prefix of the transcript after it
C1_AppendOnly == [][IsPrefix(conversation, conversation')]_vars

\* a second line has been read after a first line that left a tool turn and
\* a text turn behind
C1_Witness ==
    /\ Len(linesRead) = 2
    /\ Len(conversation) >= 4
    /\ dispatched # <<>>

\* C2: every tool call of a response that is not found or whose function
\* fails gets an error annotation printed for it, the remaining calls are
\* still processed, the turn reaches Displaying, and Run does not return
\* because of it
C2_FailedCallAnnotated ==
    /\ \A i \in 1..Len(dispatched) :
          (~dispatched[i].found \/ dispatched[i].err # "") =>
              \E j \in 1..Len(dispatched[i].printed) :
                  dispatched[i].printed[j].tag = "Tool Error"
    /\ (pc = "Displaying" \/ displayed) => Len(dispatched) = Len(response.ToolCalls)
    /\ dispatched # <<>> => runErr = ""

\* C3: every tool call of a response appends one turn carrying the tool's
\* result, or its error text when the call fails, before the next call of
\* the response is processed
C3_ResultOrErrorFolded ==
    \A i \in 1..Len(dispatched) :
        /\ Len(dispatched[i].appended) = 1
        /\ Contains(dispatched[i].appended[1].Content,
                    IF dispatched[i].err # "" THEN dispatched[i].err
                    ELSE dispatched[i].result)
        /\ Len(conversation) >= turnStart + 1 + i
        /\ conversation[turnStart + 1 + i] = dispatched[i].appended[1]

\* C4: an error of RunInference ends the run at once: Run returns that
\* error with the failed user turn last in the transcript, no tool is
\* dispatched, the inference is not called again, no further line is read,
\* and main prints the error and ends
C4_InferenceErrorFatal ==
    /\ [](runErr # "" =>
            /\ pc \in {"Returned", "Exited"}
            /\ runErr \in InferenceErrors
            /\ reply = <<>>
            /\ Last(conversation) = Message("user", Last(linesRead))
            /\ Len(inferLog) = Len(linesRead)
            /\ toolEvents = <<>> /\ dispatched = <<>> /\ ~displayed
            /\ pc = "Exited" => Last(output) = Line("Error", runErr))
    /\ [][/\ pc = "Inferring" =>
                /\ pc' \in {"Returned", "DispatchingTools", "Displaying"}
                /\ pc' = "Returned" <=> runErr' # ""
                /\ pc' = "Returned" <=> reply' = <<>>
          /\ runErr # "" =>
                /\ pc = "Returned" /\ pc' = "Exited"
                /\ UNCHANGED <<conversation, linesRead, inferLog, request>>]_vars

\* main has printed the error of an inference that failed on the second line
C4_Witness ==
    /\ pc = "Exited"
    /\ runErr # ""
    /\ Len(linesRead) = 2
    /\ Last(output).tag = "Error"

\* the user turns of a transcript
UserContents(conv) ==
    LET IsUser(m) == m.Role = "user"
        us == SelectSeq(conv, IsUser)
    IN  [i \in 1..Len(us) |-> us[i].Content]

\* C5: end-of-stream makes Run return nil without a call of the provider;
\* every line read, the empty line included, appends exactly one user turn
\* with that line and makes exactly one RunInference call on the transcript
\* ending with that turn
C5_OneTurnOneInferencePerLine ==
    /\ [](/\ Len(inferLog) = Len(linesRead)
          /\ UserContents(conversation) = linesRead
          /\ \A i \in 1..Len(inferLog) :
                /\ Last(inferLog[i]) = Message("user", linesRead[i])
                /\ UserContents(inferLog[i]) = SubSeq(linesRead, 1, i)
                /\ IsPrefix(inferLog[i], conversation))
    /\ [][pc = "AwaitingInput" =>
            IF linesRead' = linesRead
            THEN /\ pc' = "Returned" /\ runErr' = ""
                 /\ UNCHANGED <<conversation, inferLog, request>>
            ELSE /\ pc' = "Inferring"
                 /\ Len(linesRead') = Len(linesRead) + 1
                 /\ conversation' =
                        Append(conversation, Message("user", Last(linesRead')))
                 /\ inferLog' = Append(inferLog, conversation')]_vars

\* the empty line was read and inferred on, and then the stream ended
C5_Witness ==
    /\ pc = "Returned"
    /\ runErr = ""
    /\ \E i \in 1..Len(linesRead) : linesRead[i] = ""
    /\ Len(inferLog) = 2

\* the tool calls of a response that name a configured tool
Matching(resp) ==
    LET Configured(tc) == \E k \in 1..Len(tools) : tools[k].Name = tc.Name
    IN  SelectSeq(resp.ToolCalls, Configured)

\* the calls whose function has been invoked for the current line, in order
Invoked ==
    LET IsInvoke(e) == e.ev = "invoke"
        es == SelectSeq(toolEvents, IsInvoke)
    IN  [i \in 1..Len(es) |-> es[i].call]

\* C6: the tool functions are invoked one at a time in the order of the
\* tool calls of the response, and a function is not invoked before the
\* function of the previous call has returned
C6_SequentialInOrder ==
    /\ \A j \in 1..Len(toolEvents) :
          IF j % 2 = 1 THEN toolEvents[j].ev = "invoke"
          ELSE toolEvents[j].ev = "return" /\ toolEvents[j].call = toolEvents[j - 1].call
    /\ IsPrefix(Invoked, Matching(response))
    /\ (pc = "Displaying" \/ displayed) => Invoked = Matching(response)

\* two different configured calls of one response have both run
C6_Witness ==
    /\ Len(toolEvents) = 4
    /\ toolEvents[1].call # toolEvents[3].call

\* C7: the Displaying step prints a non-empty response text and appends it
\* as one assistant turn with exactly that text, appends and prints nothing
\* for an empty text, and in both cases goes back to AwaitingInput
C7_DisplayStep ==
    [][pc = "Displaying" =>
          /\ pc' = "AwaitingInput"
          /\ IF response.Content # ""
             THEN /\ conversation' =
                        Append(conversation, Message("assistant", response.Content))
                  /\ output' = Append(output, Line("Assistant", response.Content))
             ELSE UNCHANGED <<conversation, output>>]_vars

\* a non-empty response text has been displayed
C7_Witness ==
    /\ pc = "AwaitingInput"
    /\ displayed
    /\ response.Content # ""
    /\ Last(conversation) = Message("assistant", response.Content)
    /\ Last(output).tag = "Assistant"

\* the tool calls of the current line whose function was executed
Executed ==
    LET Found(d) == d.found
    IN  SelectSeq(dispatched, Found)

\* the turns appended since the current line was read
TurnsOfLine == SubSeq(conversation, turnStart + 1, Len(conversation))

\* C8: within one input line every executed tool call appends one assistant
\* turn whose content names the tool and embeds its result, and the turns of
\* the line are: the user turn, the tool-result turns in tool-call order,
\* then the assistant text turn of the response, if any
C8_TurnOrderOfLine ==
    linesRead # <<>> =>
        LET text == IF displayed /\ response.Content # ""
                    THEN <<Message("assistant", response.Content)>> ELSE <<>>
            n == Len(Executed)
        IN  /\ \A i \in 1..Len(dispatched) : dispatched[i].call = response.ToolCalls[i]
            /\ Len(TurnsOfLine) = 1 + n + Len(text)
            /\ TurnsOfLine[1] = Message("user", Last(linesRead))
            /\ \A j \in 1..n :
                  /\ TurnsOfLine[1 + j].Role = "assistant"
                  /\ Contains(TurnsOfLine[1 + j].Content, Executed[j].call.Name)
                  /\ Contains(TurnsOfLine[1 + j].Content, Executed[j].result)
            /\ SubSeq(TurnsOfLine, 2 + n, Len(TurnsOfLine)) = text

\* a line with an executed tool call that returned content, followed by a
\* call that is not configured, and a response text
C8_Witness ==
    /\ displayed
    /\ response.Content # ""
    /\ Len(dispatched) = 2
    /\ dispatched[1].found /\ dispatched[1].result # ""
    /\ Len(TurnsOfLine) = 3

\* C9: a line is read only when the turn of the previous line is over: its
\* inference has returned, every tool call of its response has been
\* processed and its text has been displayed
C9_NoReadDuringTurn ==
    [][linesRead' # linesRead =>
          /\ pc = "AwaitingInput"
          /\ toolIdx = 0
          /\ linesRead # <<>> =>
                /\ reply # <<>>
                /\ Len(dispatched) = Len(response.ToolCalls)
                /\ Len(toolEvents) = 2 * Len(Executed)
                /\ displayed]_vars

\* a second line has been read after a line whose turn grew the transcript
C9_Witness ==
    /\ Len(linesRead) = 2
    /\ pc = "Inferring"
    /\ Len(conversation) >= 3

\* the plain-text segments of a vendor reply, in reply order
RECURSIVE ConcatText(_)
ConcatText(blocks) ==
    IF blocks = <<>> THEN ""
    ELSE (IF Head(blocks).Type = "text" THEN Head(blocks).Text ELSE "")
            \o ConcatText(Tail(blocks))

ReplyText(p, r) ==
    IF p = "openai"
    THEN (IF r.Choices = <<>> THEN "" ELSE r.Choices[1].Message.Content)
    ELSE ConcatText(r.Content)

\* C10: the text of the response an adapter builds is the concatenation, in
\* reply order, of all plain-text segments of the vendor reply
C10_TextConcatenated ==
    reply # <<>> => response.Content = ReplyText(provider, reply[1])

\* the tool-invocation segments of a vendor reply, in reply order, each as
\* the id, name and argument payload the vendor gave
ReplyToolCalls(p, r) ==
    IF p = "openai"
    THEN IF r.Choices = <<>> THEN <<>>
         ELSE LET tcs == r.Choices[1].Message.ToolCalls
              IN  [i \in 1..Len(tcs) |->
                      [ID |-> tcs[i].ID, Name |-> tcs[i].Function.Name,
                       Input |-> tcs[i].Function.Arguments]]
    ELSE LET IsToolUse(b) == b.Type = "tool_use"
             us == SelectSeq(r.Content, IsToolUse)
         IN  [i \in 1..Len(us) |->
                 [ID |-> us[i].ID, Name |-> us[i].Name, Input |-> us[i].Input]]

\* C11: the response an adapter builds has exactly one tool call per
\* tool-invocation segment of the vendor reply, in the same order, each with
\* the vendor's id, the tool name and the argument payload unchanged
C11_ToolCallsPreserved ==
    reply # <<>> => response.ToolCalls = ReplyToolCalls(provider, reply[1])

\* a reply of the block-content vendor with two different tool invocations
\* has been converted
C11_Witness ==
    /\ provider = "anthropic"
    /\ reply # <<>>
    /\ Len(response.ToolCalls) = 2
    /\ response.ToolCalls[1] # response.ToolCalls[2]
    /\ response.ToolCalls[1].ID = "call_2"

\* C12: the parameters the role-message adapter sends for a tool carry every
\* property of the tool's schema with its type and description and the full
\* required list; a schema it cannot convert is never sent with properties
\* missing (the call fails instead)
C12_SchemaLossless ==
    (provider = "openai" /\ request # <<>>) =>
        \A k \in 1..Len(tools) :
            LET schema == tools[k].InputSchema
                params == request[1].Tools[k].Parameters
            IN  schema.Properties.dyntype # "nil" =>
                    /\ "properties" \in DOMAIN params
                    /\ params["properties"] = schema.Properties.entries
                    /\ "required" \in DOMAIN params
                    /\ params["required"] = schema.Required

\* the role and the text of a message of a vendor request
VendorRole(m) == m.Role

VendorText(p, m) ==
    IF p = "openai" THEN m.Content
    ELSE IF Len(m.Content) = 1 /\ m.Content[1].Type = "text" THEN m.Content[1].Text
    ELSE "<not one text block>"

\* C16: an adapter encodes the transcript into a message array of the same
\* length and order; the i-th message carries the i-th turn's content
\* unchanged, with the user role when the turn's role is user and the
\* assistant role otherwise
C16_EncodingPreservesTurns ==
    request # <<>> =>
        LET msgs == request[1].Messages
            conv == Last(inferLog)
        IN  /\ Len(msgs) = Len(conv)
            /\ \A i \in 1..Len(conv) :
                  /\ VendorText(provider, msgs[i]) = conv[i].Content
                  /\ VendorRole(msgs[i]) =
                        IF conv[i].Role = "user" THEN "user" ELSE "assistant"

\* the block-content adapter has encoded a transcript with a user turn, a
\* tool-result turn, a text turn and a second user turn
C16_Witness ==
    /\ provider = "anthropic"
    /\ request # <<>>
    /\ Len(request[1].Messages) = 4
    /\ request[1].Messages[2].Role = "assistant"
    /\ request[1].Messages[4].Role = "user"

\* C13: a response returned without an error has a non-empty text or at
\* least one tool call; a vendor reply without usable content is an error
C13_ResponseNeverEmpty ==
    reply # <<>> => (response.Content # "" \/ response.ToolCalls # <<>>)

\* C15: with neither credential variable set the program ends before any
\* interaction: no provider is constructed, no line is read and no
\* inference call is made
C15_NoCredentialIsFatal ==
    (env["OPENAI_API_KEY"] = "" /\ env["ANTHROPIC_API_KEY"] = "") =>
        /\ provider = ""
        /\ linesRead = <<>>
        /\ inferLog = <<>>
        /\ request = <<>>

\* the calls of ReadFile made so far
Calls == {dispatched[i] : i \in 1..Len(dispatched)}

\* C17: for every well-formed payload whose path names an existing regular
\* file (empty files and files in subdirectories included) ReadFile returns
\* exactly the file's contents and no error
C17_ReadsExistingFile ==
    \A d \in Calls : \A p \in DOMAIN Files :
        d.call.Input \in WellFormedFor(p) =>
            /\ d.err = ""
            /\ d.result = Files[p]
            /\ d.reads = <<p>>

\* the empty file and the file in a subdirectory have been read
C17_Witness ==
    /\ Len(dispatched) = 2
    /\ dispatched[1].call.Input = PathPayload("empty.txt")
    /\ dispatched[1].err = "" /\ dispatched[1].result = ""
    /\ dispatched[2].call.Input \in WellFormedFor("sub/b.txt")
    /\ dispatched[2].result = "nested"

\* C18: for every well-formed payload whose path cannot be read (missing
\* file, directory, empty path) ReadFile returns the empty result and an
\* error containing "failed to read file" and the path
C18_UnreadablePathError ==
    \A d \in Calls : \A p \in TestPaths \ DOMAIN Files :
        d.call.Input \in WellFormedFor(p) =>
            /\ d.result = ""
            /\ d.err # ""
            /\ Contains(d.err, "failed to read file")
            /\ Contains(d.err, p)

\* a directory and a missing file have been tried
C18_Witness ==
    /\ Len(dispatched) = 2
    /\ dispatched[1].call.Input = PathPayload("docs")
    /\ dispatched[2].call.Input = PathPayload("nonexistent.txt")
    /\ Contains(dispatched[2].err, "nonexistent.txt")

\* a call failed on parsing its arguments and read no file
ParseFailure(d) ==
    /\ d.result = ""
    /\ Contains(d.err, "failed to parse input")
    /\ d.reads = <<>>

\* C19: for every malformed payload (path of a non-text type, or
\* truncated JSON) ReadFile returns the empty result and a "failed to parse
\* input" error, and does not attempt to read a file
C19_MalformedIsParseError ==
    \A d \in Calls :
        d.call.Input \in WrongTypePayloads \cup TruncatedPayloads \cup NullPathPayloads
            => ParseFailure(d)

\* two descriptors of the tool set share a name
HasDuplicateName(ts) ==
    \E j, k \in 1..Len(ts) : j # k /\ ts[j].Name = ts[k].Name

\* C14: an agent whose tool set has two descriptors of the same name is
\* rejected at startup: no inference call is made with such a tool set and
\* no tool of it is dispatched
C14_DuplicateNameRejected ==
    HasDuplicateName(tools) =>
        /\ inferLog = <<>>
        /\ request = <<>>
        /\ toolEvents = <<>>

\* the index of the first descriptor of that name
FirstNamed(ts, name) ==
    CHOOSE k \in 1..Len(ts) : ts[k].Name = name /\ \A j \in 1..(k - 1) : ts[j].Name # name

\* C20: a line processed to completion grows the transcript by 1 + m + t
\* turns, m the number of tool calls of the response naming a configured
\* tool and t = 1 for a non-empty response text, else 0; each such call
\* invokes the function of the first descriptor of its name exactly once; a
\* call naming no configured tool invokes nothing and appends nothing
C20_TranscriptGrowth ==
    linesRead # <<>> =>
        LET m == Len(Matching(response))
            t == IF response.Content # "" THEN 1 ELSE 0
            Named(d) == \E k \in 1..Len(tools) : tools[k].Name = d.call.Name
            IsInvoke(e) == e.ev = "invoke"
            invokes == SelectSeq(toolEvents, IsInvoke)
        IN  /\ displayed => Len(conversation) - turnStart = 1 + m + t
            /\ displayed => Len(invokes) = m
            /\ Len(invokes) = Len(Executed) + (IF toolIdx # 0 THEN 1 ELSE 0)
            /\ \A i \in 1..Len(invokes) :
                  /\ invokes[i].call = Matching(response)[i]
                  /\ invokes[i].tool = FirstNamed(tools, invokes[i].call.Name)
            /\ \A i \in 1..Len(dispatched) :
                  IF Named(dispatched[i])
                  THEN dispatched[i].found /\ Len(dispatched[i].appended) = 1
                  ELSE /\ ~dispatched[i].found
                       /\ dispatched[i].appended = <<>>
                       /\ dispatched[i].reads = <<>>

\* with two descriptors named read_file, a line whose response had a
\* read_file call, a call of an unknown tool and a text is complete
C20_Witness ==
    /\ displayed
    /\ Len(tools) = 2
    /\ Len(response.ToolCalls) = 2
    /\ Len(Matching(response)) = 1
    /\ response.Content # ""
    /\ Len(conversation) - turnStart = 3

====
